---------------------------- MODULE Spec2Model ----------------------------
(***************************************************************************)
(* A model of the batching and training-loop core of the Tacotron2        *)
(* back-translation recipe (src/src/bts/bts_pytorch.py):                   *)
(*   - make_batchset, the batch planner;                                   *)
(*   - batch_converter, the batch materializer;                            *)
(*   - PytorchSeqUpdaterKaldi.update_core, one training iteration;         *)
(*   - PytorchSeqEvaluaterKaldi.evaluate, one pass over the validation     *)
(*     stream;                                                             *)
(* and of the entry point of src/src/bin/asr_extract.py (main).            *)
(* Each component has a specification of its own (SpecPlan, SpecConv,      *)
(* SpecTrain, SpecEval, SpecMain, SpecLoop) over the same variables; the   *)
(* variables a component does not use stay at their idle values.           *)
(***************************************************************************)
EXTENDS Integers, Sequences, FiniteSets, TLC

VARIABLES
    \* make_batchset: arguments, result and position
    data, batch_size, max_length_in, max_length_out, num_batches,
    batch_sort_key, minibatch, pc,
    \* batch_converter: the group it is given, its tensors and position
    batch, xs, ilens, ys, labels, olens, cpc,
    \* train and update_core: the accelerators, the training stream, the model
    \* and the optimizer
    ngpu, num_gpu, iteration, n_convert, n_forward, n_zero_grad, n_backward,
    grad_norm, params, opt_steps, warnings,
    \* evaluate: position in the validation stream, the model's mode
    \* (model.training), torch's gradient mode, and position in the method
    eval_idx, training, grad_enabled, n_eval_forward, epc,
    \* asr_extract main: the arguments, the environment, and the process
    args_gpu, args_ngpu, cvd, hostname, pythonpath, backend, exit_code,
    extracting, mpc,
    \* make_batchset pass by pass: the list being sliced, the loop variable
    \* start and the number of passes made
    sorted_data, start_pos, passes

planVars == <<data, batch_size, max_length_in, max_length_out, num_batches,
              batch_sort_key, minibatch, pc>>

convVars == <<batch, xs, ilens, ys, labels, olens, cpc>>

trainVars == <<ngpu, num_gpu, iteration, n_convert, n_forward, n_zero_grad,
               n_backward, grad_norm, params, opt_steps, warnings>>

evalVars == <<eval_idx, training, grad_enabled, n_eval_forward, epc>>

mainVars == <<args_gpu, args_ngpu, cvd, hostname, pythonpath, backend,
              exit_code, extracting, mpc>>

loopVars == <<sorted_data, start_pos, passes>>

vars == <<planVars, convVars, trainVars, evalVars, mainVars, loopVars>>

---------------------------------------------------------------------------
(* Bounds of the model. *)

\* the largest utterance index (len(data)) explored
MaxUtts == 3
\* the largest nominal batch size explored
MaxBatch == 4

\* declared lengths ('ilen', 'olen') of the utterances explored
IlenSet == {1, 2, 3}
OlenSet == {1, 2}
\* length thresholds (--maxlen-in, --maxlen-out) explored
MaxLenSet == {1, 2}
\* batch-count caps (--minibatches) explored; 0 is "no cap"
NumBatchesSet == {0, 2}
\* policy selectors: None, the two adaptive policies, and an unknown string
SortKeySet == {"None", "input", "output", "length"}

\* the largest --ngpu explored
MaxGpu == 2
\* the number of update_core calls explored
MaxIters == 3
\* the classes of gradient norm clip_grad_norm_ can return: at most the
\* threshold, above it (the gradients are rescaled), or not a number
NormSet == {"finite", "clipped", "nan"}

\* feature references explored; reference r resolves to a matrix of r frames
FeatSet == {0, 1, 2}
\* 'tokenid' strings explored, as sequences of characters: "", "10 1",
\* " 1 2  1 2 1" and "1 1 2 2 1 1 2 2" (0, 2, 5 and 8 tokens)
TokenIdSet ==
    { <<>>,
      <<"1", "0", " ", "1">>,
      <<" ", "1", " ", "2", " ", " ", "1", " ", "2", " ", "1">>,
      <<"1", " ", "1", " ", "2", " ", "2", " ", "1", " ", "1", " ", "2", " ", "2">> }
\* declared output shapes ('shape'[0]) explored
ShapeSet == {3, 11}

---------------------------------------------------------------------------
(* Python helpers. *)

Min(a, b) == IF a <= b THEN a ELSE b
Max(a, b) == IF a >= b THEN a ELSE b

\* a list given element by element; its elements are computed once, when the
\* list is built
List(f) == <<>> \o f

\* s[start:end] with 0-based, end-exclusive, clamped bounds
PySlice(s, start, end) ==
    LET lo == Min(Max(start, 0), Len(s))
        hi == Min(Max(end, 0), Len(s))
    IN  IF hi <= lo THEN <<>> ELSE List([k \in 1..(hi - lo) |-> s[lo + k]])

\* one entry of data.items(): the utterance id and the fields of its record
Item(i, il, ol, tok, f, sh) ==
    [id |-> i, ilen |-> il, olen |-> ol, tokenid |-> tok, feat |-> f, shape0 |-> sh]

---------------------------------------------------------------------------
(* make_batchset *)

\* the sort key of the two adaptive policies
SortKeyWrongField(policy, item) == item.olen
SortKey(policy, item) ==
    IF policy = "input" THEN item.olen ELSE item.ilen

\* sorted(items, key=..., reverse=True): descending by key, and stable (items
\* with equal keys keep their order in items)
SortedData(items, policy) ==
    LET n == Len(items)
        rank(i) == Cardinality({j \in 1..n :
                       \/ SortKey(policy, items[j]) > SortKey(policy, items[i])
                       \/ /\ SortKey(policy, items[j]) = SortKey(policy, items[i])
                          /\ j < i}) + 1
    IN  List([r \in 1..n |-> items[CHOOSE i \in 1..n : rank(i) = r]])

\* factor of one pass: the lengths are read swapped ("# reverse"), in both
\* adaptive branches alike
FactorUnswapped(item, maxin, maxout) ==
    Max(item.ilen \div maxin, item.olen \div maxout)
Factor(item, maxin, maxout) ==
    LET ilen == item.olen
        olen == item.ilen
    IN  Max(ilen \div maxin, olen \div maxout)

\* b of one pass of an adaptive branch
AdaptiveSizeNoFloor(bs, factor) == bs \div (1 + factor)
AdaptiveSize(bs, factor) == Max(1, bs \div (1 + factor))

\* the step of one pass of the shuffled branch: start + batch_size
FixedSizeOffByOne(bs) == bs + 1
FixedSize(bs) == bs

\* the number of utterances one pass asks for, starting at 0-based start
GroupSize(items, start, policy, bs, maxin, maxout) ==
    IF policy = "None"
    THEN FixedSize(bs)
    ELSE AdaptiveSize(bs, Factor(items[start + 1], maxin, maxout))

\* start of the next pass
NextStart(end) == end

\* the while-True loop, from the pass that begins at start
RECURSIVE SliceLoop(_, _, _, _, _, _)
SliceLoop(items, start, policy, bs, maxin, maxout) ==
    LET end == Min(Len(items), start + GroupSize(items, start, policy, bs, maxin, maxout))
    IN  <<PySlice(items, start, end)>> \o
        (IF end = Len(items)
         THEN <<>>
         ELSE SliceLoop(items, NextStart(end), policy, bs, maxin, maxout))

\* minibatch[:num_batches] when num_batches > 0
CapAlways(plan, nb) == PySlice(plan, 0, nb)
Cap(plan, nb) == IF nb > 0 THEN PySlice(plan, 0, nb) ELSE plan

\* random.sample(items, len(items)): the orders it can return
Shuffles(items) ==
    {List([k \in 1..Len(items) |-> items[p[k]]]) : p \in Permutations(1..Len(items))}

\* what an adaptive branch returns for a non-empty index
AdaptivePlan(items, policy, bs, maxin, maxout, nb) ==
    Cap(SliceLoop(SortedData(items, policy), 0, policy, bs, maxin, maxout), nb)

\* batch_sort_key is None
MakeBatchsetShuffled ==
    /\ pc = "call"
    /\ batch_sort_key = "None"
    /\ \E shuffled_data \in Shuffles(data) :
          minibatch' = Cap(SliceLoop(shuffled_data, 0, "None", batch_size,
                                     max_length_in, max_length_out), num_batches)
    /\ pc' = "returned"
    /\ UNCHANGED <<convVars, trainVars, evalVars, mainVars, loopVars>>
    /\ UNCHANGED <<data, batch_size, max_length_in, max_length_out, num_batches,
                   batch_sort_key>>

\* batch_sort_key is "input" or "output", on a non-empty index
MakeBatchsetSorted ==
    /\ pc = "call"
    /\ batch_sort_key \in {"input", "output"}
    /\ Len(data) > 0
    /\ minibatch' = AdaptivePlan(data, batch_sort_key, batch_size,
                                 max_length_in, max_length_out, num_batches)
    /\ pc' = "returned"
    /\ UNCHANGED <<convVars, trainVars, evalVars, mainVars, loopVars>>
    /\ UNCHANGED <<data, batch_size, max_length_in, max_length_out, num_batches,
                   batch_sort_key>>

\* batch_sort_key is "input" or "output", on an empty index: sorted_data[start]
\* raises IndexError in the first pass
MakeBatchsetSortedEmpty ==
    /\ pc = "call"
    /\ batch_sort_key \in {"input", "output"}
    /\ Len(data) = 0
    /\ pc' = "raised"
    /\ UNCHANGED <<convVars, trainVars, evalVars, mainVars, loopVars>>
    /\ UNCHANGED <<data, batch_size, max_length_in, max_length_out, num_batches,
                   batch_sort_key, minibatch>>

\* any other batch_sort_key: the else branch builds a ValueError and drops it
\* (there is no raise), so the call goes on to the cap and returns
MakeBatchsetUnknown ==
    /\ pc = "call"
    /\ batch_sort_key \notin {"None", "input", "output"}
    /\ minibatch' = Cap(<<>>, num_batches)
    /\ pc' = "returned"
    /\ UNCHANGED <<convVars, trainVars, evalVars, mainVars, loopVars>>
    /\ UNCHANGED <<data, batch_size, max_length_in, max_length_out, num_batches,
                   batch_sort_key>>

MakeBatchset ==
    \/ MakeBatchsetShuffled
    \/ MakeBatchsetSorted
    \/ MakeBatchsetSortedEmpty
    \/ MakeBatchsetUnknown

---------------------------------------------------------------------------
(* batch_converter *)

Digits == <<"0", "1", "2", "3", "4", "5", "6", "7", "8", "9">>

\* str(n) of an integer, as a sequence of characters
RECURSIVE PyStr(_)
PyStr(n) ==
    IF n < 0 THEN <<"-">> \o PyStr(0 - n)
    ELSE IF n < 10 THEN <<Digits[n + 1]>>
    ELSE PyStr(n \div 10) \o <<Digits[(n % 10) + 1]>>

\* int(s) of a decimal string
RECURSIVE PyIntDigits(_, _)
PyIntDigits(s, acc) ==
    IF s = <<>> THEN acc
    ELSE PyIntDigits(Tail(s), 10 * acc + (CHOOSE d \in 0..9 : Digits[d + 1] = Head(s)))
PyInt(s) ==
    IF s # <<>> /\ Head(s) = "-" THEN 0 - PyIntDigits(Tail(s), 0) ELSE PyIntDigits(s, 0)

\* s.split(): the maximal runs of non-blank characters of s, in order
RECURSIVE SplitFrom(_, _, _)
SplitFrom(s, i, cur) ==
    IF i > Len(s)
    THEN IF cur = <<>> THEN <<>> ELSE <<cur>>
    ELSE IF s[i] = " "
         THEN (IF cur = <<>> THEN <<>> ELSE <<cur>>) \o SplitFrom(s, i + 1, <<>>)
         ELSE SplitFrom(s, i + 1, Append(cur, s[i]))
PySplit(s) == SplitFrom(s, 1, <<>>)

\* kaldi_io_py.read_mat(ref): reference r resolves to a matrix of r frames, each
\* frame a non-zero value that names the reference and the frame
ReadMat(ref) == List([t \in 1..ref |-> 10 * ref + t])

\* eos: str(int(batch[0][1]['output'][0]['shape'][0]) - 1)
Eos(group) == PyStr(group[1].shape0 - 1)

\* line 107: the token strings of every utterance, eos appended
TokensWithEos(group, eos) ==
    List([i \in 1..Len(group) |-> PySplit(group[i].tokenid) \o <<eos>>])

\* line 111: the indices whose sequence is not empty (the sequences tested are
\* those of line 107, eos included), in index order
FilteredIdx(group, seqs) ==
    LET keep == {i \in 1..Len(seqs) : Len(seqs[i]) > 0}
    IN  List([r \in 1..Cardinality(keep) |->
                 CHOOSE i \in keep : Cardinality({j \in keep : j < i}) = r - 1])

\* line 112: sorted(filtered_idx, key=lambda i: -len(xs[i])): ascending by the
\* negated length, and stable
SortedIdxAscending(idx, seqs) ==
    LET n == Len(idx)
        key(r) == Len(seqs[idx[r]])
        rank(r) == Cardinality({q \in 1..n :
                       \/ key(q) < key(r)
                       \/ (key(q) = key(r) /\ q < r)}) + 1
    IN  List([k \in 1..n |-> idx[CHOOSE r \in 1..n : rank(r) = k]])
SortedIdx(idx, seqs) ==
    LET n == Len(idx)
        key(r) == 0 - Len(seqs[idx[r]])
        rank(r) == Cardinality({q \in 1..n :
                       \/ key(q) < key(r)
                       \/ (key(q) = key(r) /\ q < r)}) + 1
    IN  List([k \in 1..n |-> idx[CHOOSE r \in 1..n : rank(r) = k]])

\* pad_list(rows, 0): every row extended with 0 to the length of the longest
PadTo(rows, width) ==
    List([i \in 1..Len(rows) |->
             List([t \in 1..width |-> IF t <= Len(rows[i]) THEN rows[i][t] ELSE 0])])
PadList(rows) ==
    IF rows = <<>> THEN <<>>
    ELSE CHOOSE pad \in {PadTo(rows, w) : w \in {Len(rows[i]) : i \in 1..Len(rows)}} :
            \A i \in 1..Len(rows) : Len(rows[i]) <= Len(pad[i])

\* labels[i, l - 1:] = 1 on a zero row of the given width; a negative start
\* counts from the end of the row
StopLabelRowFromL(l, width) ==
    List([t \in 1..width |-> IF t - 1 >= l THEN 1 ELSE 0])
StopLabelRow(l, width) ==
    LET from == IF l - 1 < 0 THEN Max(width + (l - 1), 0) ELSE l - 1
    IN  List([t \in 1..width |-> IF t - 1 >= from THEN 1 ELSE 0])

\* lines 104-127 on a non-empty group: the locals in the order the code
\* assigns them, and the tensors left in xs, ilens, ys, labels and olens
Materialize(group) ==
    \E eos \in {Eos(group)} :
    \E xs0 \in {TokensWithEos(group, eos)},
       ys0 \in {List([i \in 1..Len(group) |-> ReadMat(group[i].feat)])} :
    \E filtered_idx \in {FilteredIdx(group, xs0)} :
    \E sorted_idx \in {SortedIdx(filtered_idx, xs0)} :
    \E xs1 \in {List([k \in 1..Len(sorted_idx) |->
                   List([t \in 1..Len(xs0[sorted_idx[k]]) |->
                            PyInt(xs0[sorted_idx[k]][t])])])},
       ys1 \in {List([k \in 1..Len(sorted_idx) |-> ys0[sorted_idx[k]]])} :
    \E il \in {List([k \in 1..Len(xs1) |-> Len(xs1[k])])},
       ol \in {List([k \in 1..Len(ys1) |-> Len(ys1[k])])} :
    \E xs2 \in {PadList(xs1)}, ys2 \in {PadList(ys1)} :
    \E width \in {IF ys2 = <<>> THEN 0 ELSE Len(ys2[1])} :
       /\ xs' = xs2
       /\ ilens' = il
       /\ ys' = ys2
       /\ labels' = List([k \in 1..Len(ol) |-> StopLabelRow(ol[k], width)])
       /\ olens' = ol

\* a group with at least one utterance
BatchConverterRun ==
    /\ cpc = "call"
    /\ Len(batch) > 0
    /\ Materialize(batch)
    /\ cpc' = "returned"
    /\ UNCHANGED batch
    /\ UNCHANGED <<planVars, trainVars, evalVars, mainVars, loopVars>>

\* an empty group: batch[0] raises IndexError at line 104
BatchConverterEmpty ==
    /\ cpc = "call"
    /\ Len(batch) = 0
    /\ cpc' = "raised"
    /\ UNCHANGED <<batch, xs, ilens, ys, labels, olens>>
    /\ UNCHANGED <<planVars, trainVars, evalVars, mainVars, loopVars>>

BatchConverter ==
    \/ BatchConverterRun
    \/ BatchConverterEmpty

\* no call of batch_converter under way
ConvIdle ==
    /\ batch = <<>>
    /\ xs = <<>>
    /\ ilens = <<>>
    /\ ys = <<>>
    /\ labels = <<>>
    /\ olens = <<>>
    /\ cpc = "idle"

---------------------------------------------------------------------------
(* train and PytorchSeqUpdaterKaldi.update_core *)

\* train, "Set gpu": the device list handed to the updater
GpuId(n) == IF n >= 1 THEN List([k \in 1..n |-> k - 1]) ELSE <<-1>>

\* train: args.batch_size *= args.ngpu when ngpu > 1
ScaledBatchSize(bs, n) == IF n > 1 THEN bs * n ELSE bs

\* len(batch[0]) < self.num_gpu
UndersizedOrEqual(group, n) == Len(group) <= n
Undersized(group, n) == Len(group) < n

\* math.isnan(grad_norm)
IsNanNever(norm) == FALSE
IsNan(norm) == norm = "nan"

\* train_iter.__next__(): the stream hands out the groups of the plan, one per
\* call, in an order of its own; g is the group it hands out now
Pull(g) ==
    /\ pc = "returned"
    /\ iteration < MaxIters
    /\ g \in 1..Len(minibatch)
    /\ iteration' = iteration + 1
    /\ batch' = minibatch[g]

\* the group is smaller than the device list: warn and return
UpdateCoreSkip ==
    \E g \in 1..Len(minibatch) :
       /\ Pull(g)
       /\ Undersized(minibatch[g], num_gpu)
       /\ warnings' = [warnings EXCEPT !.ignored = @ + 1]
       /\ UNCHANGED <<xs, ilens, ys, labels, olens, cpc>>
       /\ UNCHANGED <<ngpu, num_gpu, n_convert, n_forward, n_zero_grad, n_backward,
                      grad_norm, params, opt_steps>>
       /\ UNCHANGED <<planVars, evalVars, mainVars, loopVars>>

\* lines 212-220: convert, forward, zero_grad, backward, clip
ComputeGradient(g, norm) ==
    /\ Pull(g)
    /\ ~Undersized(minibatch[g], num_gpu)
    /\ Materialize(minibatch[g])
    /\ n_convert' = n_convert + 1
    /\ n_forward' = n_forward + 1
    /\ n_zero_grad' = n_zero_grad + 1
    /\ n_backward' = n_backward + 1
    /\ grad_norm' = norm
    /\ UNCHANGED <<cpc, ngpu, num_gpu>>
    /\ UNCHANGED <<planVars, evalVars, mainVars, loopVars>>

\* the gradient norm is NaN: warn, no optimizer step
UpdateCoreNan ==
    \E g \in 1..Len(minibatch), norm \in NormSet :
       /\ ComputeGradient(g, norm)
       /\ IsNan(norm)
       /\ warnings' = [warnings EXCEPT !.nan = @ + 1]
       /\ UNCHANGED <<params, opt_steps>>

\* the gradient norm is a number: optimizer.step()
UpdateCoreStep ==
    \E g \in 1..Len(minibatch), norm \in NormSet :
       /\ ComputeGradient(g, norm)
       /\ ~IsNan(norm)
       /\ params' = params + 1
       /\ opt_steps' = opt_steps + 1
       /\ UNCHANGED warnings

UpdateCore ==
    \/ UpdateCoreSkip
    \/ UpdateCoreNan
    \/ UpdateCoreStep

\* no training run under way
TrainIdle ==
    /\ ngpu = 0
    /\ num_gpu = 1
    /\ iteration = 0
    /\ n_convert = 0
    /\ n_forward = 0
    /\ n_zero_grad = 0
    /\ n_backward = 0
    /\ grad_norm = "none"
    /\ params = 0
    /\ opt_steps = 0
    /\ warnings = [ignored |-> 0, nan |-> 0]

---------------------------------------------------------------------------
(* PytorchSeqEvaluaterKaldi.evaluate *)

\* no call of evaluate under way; a constructed model is in training mode and
\* gradients are enabled
EvalIdle ==
    /\ eval_idx = 0
    /\ training = TRUE
    /\ grad_enabled = TRUE
    /\ n_eval_forward = 0
    /\ epc = "idle"

\* the converter raises on an empty group: batch[0][0] is out of range
ConverterRaises(group) == Len(group) = 0

\* evaluate up to the loop: the stream is reset, model.eval() and torch.no_grad()
EvaluateEnter ==
    /\ pc = "returned"
    /\ epc = "call"
    /\ eval_idx' = 0
    /\ training' = FALSE
    /\ grad_enabled' = FALSE
    /\ epc' = "loop"
    /\ UNCHANGED n_eval_forward
    /\ UNCHANGED <<planVars, convVars, trainVars, mainVars, loopVars>>

\* what leaving the 'with torch.no_grad()' block does, on any exit
ExitNoGrad == grad_enabled' = TRUE

\* one pass of the loop in which self.converter(batch) raises: the exception
\* leaves evaluate through the with blocks
EvaluateConverterRaises ==
    /\ epc = "loop"
    /\ eval_idx < Len(minibatch)
    /\ ConverterRaises(minibatch[eval_idx + 1])
    /\ batch' = minibatch[eval_idx + 1]
    /\ ExitNoGrad
    /\ epc' = "raised"
    /\ UNCHANGED <<eval_idx, training, n_eval_forward>>
    /\ UNCHANGED <<xs, ilens, ys, labels, olens, cpc>>
    /\ UNCHANGED <<planVars, trainVars, mainVars, loopVars>>

\* one pass of the loop in which the batch is converted and self.model(*batch)
\* raises
EvaluateModelRaises ==
    /\ epc = "loop"
    /\ eval_idx < Len(minibatch)
    /\ ~ConverterRaises(minibatch[eval_idx + 1])
    /\ batch' = minibatch[eval_idx + 1]
    /\ Materialize(minibatch[eval_idx + 1])
    /\ ExitNoGrad
    /\ epc' = "raised"
    /\ UNCHANGED <<eval_idx, training, n_eval_forward, cpc>>
    /\ UNCHANGED <<planVars, trainVars, mainVars, loopVars>>

\* one pass of the loop that converts the batch and runs the model on it
EvaluateBatch ==
    /\ epc = "loop"
    /\ eval_idx < Len(minibatch)
    /\ ~ConverterRaises(minibatch[eval_idx + 1])
    /\ batch' = minibatch[eval_idx + 1]
    /\ Materialize(minibatch[eval_idx + 1])
    /\ n_eval_forward' = n_eval_forward + 1
    /\ eval_idx' = eval_idx + 1
    /\ UNCHANGED <<training, grad_enabled, epc, cpc>>
    /\ UNCHANGED <<planVars, trainVars, mainVars, loopVars>>

\* the stream is exhausted: the with block ends, model.train(), return
EvaluateReturn ==
    /\ epc = "loop"
    /\ eval_idx = Len(minibatch)
    /\ ExitNoGrad
    /\ training' = TRUE
    /\ epc' = "returned"
    /\ UNCHANGED <<eval_idx, n_eval_forward>>
    /\ UNCHANGED <<planVars, convVars, trainVars, mainVars, loopVars>>

Evaluate ==
    \/ EvaluateEnter
    \/ EvaluateConverterRaises
    \/ EvaluateModelRaises
    \/ EvaluateBatch
    \/ EvaluateReturn

---------------------------------------------------------------------------
(* main of src/src/bin/asr_extract.py *)

\* --gpu: not given (None), or an integer
GpuNone == [given |-> FALSE, value |-> 0]
GpuArg(v) == [given |-> TRUE, value |-> v]
\* an environment variable: unset (os.environ.get gives None), or a string,
\* kept as its sequence of characters
EnvUnset == [set |-> FALSE, value |-> <<>>]
EnvStr(v) == [set |-> TRUE, value |-> v]

\* values of CUDA_VISIBLE_DEVICES explored: unset, "", "0", "0,1", "0,1,2",
\* "1,", "0,1,2,3"
CvdSet ==
    { EnvUnset,
      EnvStr(<<>>),
      EnvStr(<<"0">>),
      EnvStr(<<"0", ",", "1">>),
      EnvStr(<<"0", ",", "1", ",", "2">>),
      EnvStr(<<"1", ",">>),
      EnvStr(<<"0", ",", "1", ",", "2", ",", "3">>) }
\* --gpu values explored
GpuArgSet == {GpuNone, GpuArg(-1), GpuArg(0), GpuArg(1)}
\* what 'hostname -f' gives: a CLSP host, another host, or the command fails
HostnameSet == {"clsp", "other", "error"}
\* --backend values argparse lets through
BackendSet == {"chainer", "pytorch"}

\* str.split(sep) for a one-character separator: the pieces between the
\* separators, empty pieces included ("".split(",") is [""])
RECURSIVE SplitSepFrom(_, _, _, _)
SplitSepFrom(s, sep, i, cur) ==
    IF i > Len(s) THEN <<cur>>
    ELSE IF s[i] = sep THEN <<cur>> \o SplitSepFrom(s, sep, i + 1, <<>>)
    ELSE SplitSepFrom(s, sep, i + 1, Append(cur, s[i]))

PySplitSep(s, sep) == SplitSepFrom(s, sep, 1, <<>>)

\* args.ngpu after the deprecated --gpu option is applied
NgpuAfterOverride(gpu, n) ==
    IF gpu.given
    THEN IF gpu.value = -1 THEN 0 ELSE 1
    ELSE n

\* the environment variable as line 62 reads it: on a CLSP host it has been
\* overwritten with whatever free-gpu printed
CvdRead(n, host, env) ==
    IF n > 0 /\ host = "clsp"
    THEN CvdSet \ {EnvUnset}
    ELSE {env}

CvdMismatchFewerOnly(n, env) ==
    env.set /\ n < Len(PySplitSep(env.value, ","))
\* the elif of the check: the variable is set and does not have args.ngpu
\* comma-separated entries
CvdMismatch(n, env) ==
    env.set /\ n # Len(PySplitSep(env.value, ","))

\* an uncaught exception or sys.exit(1): the process ends with status 1
MainExits ==
    /\ exit_code' = 1
    /\ mpc' = "exited"
    /\ UNCHANGED extracting

\* main, from the --gpu override to the PYTHONPATH line; it ends at the
\* dispatch on args.backend or with the exit of the process
MainChecks ==
    /\ mpc = "start"
    /\ \E n \in {NgpuAfterOverride(args_gpu, args_ngpu)} :
          /\ args_ngpu' = n
          /\ IF n > 0 /\ hostname = "error"
             THEN \* subprocess.check_output raises
                  /\ UNCHANGED cvd
                  /\ MainExits
             ELSE \E env \in CvdRead(n, hostname, cvd) :
                     /\ cvd' = env
                     /\ IF n > 0 /\ CvdMismatch(n, env)
                        THEN \* logging.error, sys.exit(1)
                             MainExits
                        ELSE IF ~pythonpath
                        THEN \* os.environ['PYTHONPATH'] raises KeyError
                             MainExits
                        ELSE /\ mpc' = "dispatch"
                             /\ UNCHANGED <<exit_code, extracting>>
    /\ UNCHANGED <<args_gpu, hostname, pythonpath, backend>>
    /\ UNCHANGED <<planVars, convVars, trainVars, evalVars, loopVars>>

\* backend "chainer": raise NotImplementedError
MainDispatchChainer ==
    /\ mpc = "dispatch"
    /\ backend = "chainer"
    /\ MainExits
    /\ UNCHANGED <<args_gpu, args_ngpu, cvd, hostname, pythonpath, backend>>
    /\ UNCHANGED <<planVars, convVars, trainVars, evalVars, loopVars>>

\* backend "pytorch": extract(args) starts
MainDispatchPytorch ==
    /\ mpc = "dispatch"
    /\ backend = "pytorch"
    /\ extracting' = TRUE
    /\ mpc' = "extract"
    /\ UNCHANGED <<args_gpu, args_ngpu, cvd, hostname, pythonpath, backend, exit_code>>
    /\ UNCHANGED <<planVars, convVars, trainVars, evalVars, loopVars>>

Main ==
    \/ MainChecks
    \/ MainDispatchChainer
    \/ MainDispatchPytorch

---------------------------------------------------------------------------
(* idle values of the variables of asr_extract main and of the pass-by-pass
   make_batchset *)

MainIdle ==
    /\ args_gpu = GpuNone
    /\ args_ngpu = 0
    /\ cvd = EnvUnset
    /\ hostname = "other"
    /\ pythonpath = TRUE
    /\ backend = "pytorch"
    /\ exit_code = 0
    /\ extracting = FALSE
    /\ mpc = "idle"

LoopIdle ==
    /\ sorted_data = <<>>
    /\ start_pos = 0
    /\ passes = 0

---------------------------------------------------------------------------
(* make_batchset, pass by pass: the same code as above with the position in
   the while-True loop in the state (pc = "loop"), for what is said of the
   passes; start_pos is the loop variable start *)

\* the passes explored of a loop that does not end
MaxPasses == MaxUtts + 2

\* policy None up to the loop: the index is shuffled
LoopEnterShuffled ==
    /\ pc = "call"
    /\ batch_sort_key = "None"
    /\ sorted_data' \in Shuffles(data)
    /\ start_pos' = 0
    /\ minibatch' = <<>>
    /\ pc' = "loop"
    /\ UNCHANGED passes
    /\ UNCHANGED <<data, batch_size, max_length_in, max_length_out, num_batches,
                   batch_sort_key>>
    /\ UNCHANGED <<convVars, trainVars, evalVars, mainVars>>

\* policies "input" and "output" up to the loop: the index is sorted
LoopEnterSorted ==
    /\ pc = "call"
    /\ batch_sort_key \in {"input", "output"}
    /\ sorted_data' = SortedData(data, batch_sort_key)
    /\ start_pos' = 0
    /\ minibatch' = <<>>
    /\ pc' = "loop"
    /\ UNCHANGED passes
    /\ UNCHANGED <<data, batch_size, max_length_in, max_length_out, num_batches,
                   batch_sort_key>>
    /\ UNCHANGED <<convVars, trainVars, evalVars, mainVars>>

\* any other policy: the ValueError is built and dropped, the empty plan is
\* returned
LoopEnterUnknown ==
    /\ pc = "call"
    /\ batch_sort_key \notin {"None", "input", "output"}
    /\ minibatch' = Cap(<<>>, num_batches)
    /\ pc' = "returned"
    /\ UNCHANGED <<sorted_data, start_pos, passes>>
    /\ UNCHANGED <<data, batch_size, max_length_in, max_length_out, num_batches,
                   batch_sort_key>>
    /\ UNCHANGED <<convVars, trainVars, evalVars, mainVars>>

\* a pass of an adaptive branch reads sorted_data[start] first
PassRaises == batch_sort_key # "None" /\ start_pos >= Len(sorted_data)

\* end of the pass under way
PassEnd ==
    Min(Len(sorted_data),
        start_pos + GroupSize(sorted_data, start_pos, batch_sort_key, batch_size,
                              max_length_in, max_length_out))

\* a pass in which sorted_data[start] raises IndexError
LoopPassRaises ==
    /\ pc = "loop"
    /\ passes < MaxPasses
    /\ PassRaises
    /\ passes' = passes + 1
    /\ pc' = "raised"
    /\ UNCHANGED <<sorted_data, start_pos>>
    /\ UNCHANGED <<data, batch_size, max_length_in, max_length_out, num_batches,
                   batch_sort_key, minibatch>>
    /\ UNCHANGED <<convVars, trainVars, evalVars, mainVars>>

\* a pass that appends its group and goes round again from start = end
LoopPassAgain ==
    /\ pc = "loop"
    /\ passes < MaxPasses
    /\ ~PassRaises
    /\ PassEnd # Len(sorted_data)
    /\ minibatch' = Append(minibatch, PySlice(sorted_data, start_pos, PassEnd))
    /\ start_pos' = NextStart(PassEnd)
    /\ passes' = passes + 1
    /\ UNCHANGED <<sorted_data, pc>>
    /\ UNCHANGED <<data, batch_size, max_length_in, max_length_out, num_batches,
                   batch_sort_key>>
    /\ UNCHANGED <<convVars, trainVars, evalVars, mainVars>>

\* the pass that reaches the end of the list: break, the cap, return
LoopPassBreak ==
    /\ pc = "loop"
    /\ passes < MaxPasses
    /\ ~PassRaises
    /\ PassEnd = Len(sorted_data)
    /\ minibatch' = Cap(Append(minibatch, PySlice(sorted_data, start_pos, PassEnd)),
                        num_batches)
    /\ passes' = passes + 1
    /\ pc' = "returned"
    /\ UNCHANGED <<sorted_data, start_pos>>
    /\ UNCHANGED <<data, batch_size, max_length_in, max_length_out, num_batches,
                   batch_sort_key>>
    /\ UNCHANGED <<convVars, trainVars, evalVars, mainVars>>

MakeBatchsetLoop ==
    \/ LoopEnterShuffled
    \/ LoopEnterSorted
    \/ LoopEnterUnknown
    \/ LoopPassRaises
    \/ LoopPassAgain
    \/ LoopPassBreak

---------------------------------------------------------------------------
(* The specifications. *)

\* the utterance indexes explored: n utterances with ids 1..n, in items()
\* order, each with its declared lengths
InitPlan ==
    /\ \E n \in 0..MaxUtts :
          \E il \in [1..n -> IlenSet], ol \in [1..n -> OlenSet] :
             data = [i \in 1..n |-> Item(i, il[i], ol[i], <<"1">>, 1, 3)]
    /\ batch_size \in 1..MaxBatch
    /\ max_length_in \in MaxLenSet
    /\ max_length_out \in MaxLenSet
    /\ num_batches \in NumBatchesSet
    /\ batch_sort_key \in SortKeySet
    /\ minibatch = <<>>
    /\ pc = "call"
    /\ ConvIdle
    /\ TrainIdle
    /\ EvalIdle
    /\ MainIdle
    /\ LoopIdle

NextPlan == MakeBatchset

SpecPlan == InitPlan /\ [][NextPlan]_vars

\* no call of make_batchset under way
PlanIdle ==
    /\ data = <<>>
    /\ batch_size = 1
    /\ max_length_in = 1
    /\ max_length_out = 1
    /\ num_batches = 0
    /\ batch_sort_key = "None"
    /\ minibatch = <<>>
    /\ pc = "idle"

\* the groups explored: n utterances of one manifest (one declared shape), each
\* with a token string and a feature reference; ilen and olen are the lengths
\* the manifest declares for them
InitConv ==
    /\ \E n \in 0..MaxUtts :
          \E tok \in [1..n -> TokenIdSet], f \in [1..n -> FeatSet], sh \in ShapeSet :
             batch = [i \in 1..n |->
                         Item(i, f[i], Len(PySplit(tok[i])), tok[i], f[i], sh)]
    /\ xs = <<>>
    /\ ilens = <<>>
    /\ ys = <<>>
    /\ labels = <<>>
    /\ olens = <<>>
    /\ cpc = "call"
    /\ PlanIdle
    /\ TrainIdle
    /\ EvalIdle
    /\ MainIdle
    /\ LoopIdle

NextConv == BatchConverter

SpecConv == InitConv /\ [][NextConv]_vars

\* train, up to the call of make_batchset for the training set: the utterances
\* of the training set are alike (what update_core reads is the size of a group)
InitTrain ==
    /\ \E n \in 0..MaxUtts :
          data = [i \in 1..n |-> Item(i, 1, 1, <<"1", "0", " ", "1">>, 1, 11)]
    /\ ngpu \in 0..MaxGpu
    /\ num_gpu = Len(GpuId(ngpu))
    /\ \E bs \in 1..MaxBatch : batch_size = ScaledBatchSize(bs, ngpu)
    /\ max_length_in = 1
    /\ max_length_out = 1
    /\ num_batches = 0
    /\ batch_sort_key \in SortKeySet
    /\ minibatch = <<>>
    /\ pc = "call"
    /\ ConvIdle
    /\ iteration = 0
    /\ n_convert = 0
    /\ n_forward = 0
    /\ n_zero_grad = 0
    /\ n_backward = 0
    /\ grad_norm = "none"
    /\ params = 0
    /\ opt_steps = 0
    /\ warnings = [ignored |-> 0, nan |-> 0]
    /\ EvalIdle
    /\ MainIdle
    /\ LoopIdle

NextTrain ==
    \/ MakeBatchset
    \/ UpdateCore

SpecTrain == InitTrain /\ [][NextTrain]_vars

\* train, up to the call of make_batchset for the validation set; the trainer
\* then calls evaluate on the plan, with the model in training mode
InitEval ==
    /\ \E n \in 0..MaxUtts :
          \E tok \in [1..n -> {<<"1">>, <<"1", " ", "2">>}] :
             data = [i \in 1..n |-> Item(i, 1, 1, tok[i], 1, 3)]
    /\ batch_size \in 1..MaxBatch
    /\ max_length_in = 1
    /\ max_length_out = 1
    /\ num_batches = 0
    /\ batch_sort_key \in SortKeySet
    /\ minibatch = <<>>
    /\ pc = "call"
    /\ ConvIdle
    /\ TrainIdle
    /\ eval_idx = 0
    /\ training = TRUE
    /\ grad_enabled = TRUE
    /\ n_eval_forward = 0
    /\ epc = "call"
    /\ MainIdle
    /\ LoopIdle

NextEval ==
    \/ MakeBatchset
    \/ Evaluate

SpecEval == InitEval /\ [][NextEval]_vars

\* asr_extract main after parse_args: the arguments and the environment
InitMain ==
    /\ args_gpu \in GpuArgSet
    /\ args_ngpu \in 0..MaxGpu
    /\ cvd \in CvdSet
    /\ hostname \in HostnameSet
    /\ pythonpath \in BOOLEAN
    /\ backend \in BackendSet
    /\ exit_code = 0
    /\ extracting = FALSE
    /\ mpc = "start"
    /\ PlanIdle
    /\ ConvIdle
    /\ TrainIdle
    /\ EvalIdle
    /\ LoopIdle

NextMain == Main

SpecMain == InitMain /\ [][NextMain]_vars

\* the calls of make_batchset explored pass by pass: as for InitPlan, with
\* batch_size 0 as well, and with one declared olen for all utterances
InitLoop ==
    /\ \E n \in 0..MaxUtts :
          \E il \in [1..n -> IlenSet] :
             data = [i \in 1..n |-> Item(i, il[i], 1, <<"1">>, 1, 3)]
    /\ batch_size \in 0..MaxBatch
    /\ max_length_in \in MaxLenSet
    /\ max_length_out \in MaxLenSet
    /\ num_batches \in NumBatchesSet
    /\ batch_sort_key \in SortKeySet
    /\ minibatch = <<>>
    /\ pc = "call"
    /\ ConvIdle
    /\ TrainIdle
    /\ EvalIdle
    /\ MainIdle
    /\ LoopIdle

NextLoop == MakeBatchsetLoop

SpecLoop == InitLoop /\ [][NextLoop]_vars

---------------------------------------------------------------------------
(* Properties of make_batchset, checked under SpecPlan. *)

ValidKeys == {"None", "input", "output"}

\* the places <<g, k>> of a plan and the ids it holds, group by group
Places(plan) ==
    UNION {{<<g, k>> : k \in 1..Len(plan[g])} : g \in 1..Len(plan)}
PlanIds(plan) == [g \in 1..Len(plan) |-> [k \in 1..Len(plan[g]) |-> plan[g][k].id]]

\* C1: for a valid policy, a non-empty index, batch_size >= 1 and no cap
\* (num_batches = 0), the returned plan is a partition of the index: every
\* utterance of data sits at exactly one place of the plan, and every place
\* holds an utterance of data.
C1_Partition ==
    (/\ pc = "returned"
     /\ batch_sort_key \in ValidKeys
     /\ Len(data) > 0
     /\ num_batches = 0)
    => /\ \A i \in 1..Len(data) :
              Cardinality({pl \in Places(minibatch) :
                              minibatch[pl[1]][pl[2]] = data[i]}) = 1
       /\ Cardinality(Places(minibatch)) = Len(data)

C1_Witness ==
    /\ pc = "returned"
    /\ batch_sort_key \in ValidKeys
    /\ Len(data) = 3
    /\ num_batches = 0
    /\ Len(minibatch) = 2

\* C2: a policy string that is none of None, "input", "output" never makes
\* make_batchset return a plan (it fails with a configuration error).
C2_UnknownKeyFails ==
    batch_sort_key \notin ValidKeys => pc # "returned"

\* C3 as stated: under policy None without a cap, every group has batch_size
\* utterances except the last, which has N mod B, or B when N mod B = 0, for
\* every N, N = 0 included.
C3_FixedGroupsEveryN ==
    (/\ pc = "returned"
     /\ batch_sort_key = "None"
     /\ num_batches = 0)
    => LET N == Len(data)
           B == batch_size
           G == Len(minibatch)
       IN  \A g \in 1..G :
              Len(minibatch[g]) = IF g < G THEN B
                                  ELSE IF N % B = 0 THEN B ELSE N % B

\* C3 as amended: the same for every N >= 1; for N = 0 the plan is one empty
\* group (of size 0, not B).
C3_FixedGroups ==
    (/\ pc = "returned"
     /\ batch_sort_key = "None"
     /\ num_batches = 0)
    => LET N == Len(data)
           B == batch_size
           G == Len(minibatch)
       IN  IF N = 0
           THEN minibatch = << <<>> >>
           ELSE \A g \in 1..G :
                   Len(minibatch[g]) = IF g < G THEN B
                                       ELSE IF N % B = 0 THEN B ELSE N % B

C3_Witness ==
    /\ pc = "returned"
    /\ batch_sort_key = "None"
    /\ num_batches = 0
    /\ Len(data) = 3
    /\ batch_size = 2
    /\ Len(minibatch) = 2
    /\ Len(minibatch[2]) = 1

\* the utterances of a plan in plan order
RECURSIVE Flatten(_)
Flatten(plan) == IF plan = <<>> THEN <<>> ELSE Head(plan) \o Flatten(Tail(plan))

\* x comes before y in the order an adaptive policy walks: longer first by the
\* policy's length field (olen for "input", ilen for "output"), index order
\* among equals
WalksBefore(x, y) ==
    LET kx == IF batch_sort_key = "input" THEN x.olen ELSE x.ilen
        ky == IF batch_sort_key = "input" THEN y.olen ELSE y.ilen
    IN  kx > ky \/ (kx = ky /\ x.id < y.id)

\* C4: under "input" or "output" every group holds between 1 and batch_size
\* utterances; every group but the last holds exactly
\* max(1, batch_size div (1 + factor)) of them, factor taken from the swapped
\* length fields of the group's first utterance; and the groups are consecutive
\* runs of the sorted order.
C4_AdaptiveGroups ==
    (/\ pc = "returned"
     /\ batch_sort_key \in {"input", "output"})
    => LET G == Len(minibatch)
           flat == Flatten(minibatch)
           inPlan == {flat[k] : k \in 1..Len(flat)}
           all == {data[i] : i \in 1..Len(data)}
       IN  /\ \A g \in 1..G :
                 /\ Len(minibatch[g]) >= 1
                 /\ Len(minibatch[g]) <= batch_size
           /\ \A g \in 1..(G - 1) :
                 LET a == minibatch[g][1].olen
                     b == minibatch[g][1].ilen
                     factor == Max(a \div max_length_in, b \div max_length_out)
                 IN  Len(minibatch[g]) = Max(1, batch_size \div (1 + factor))
           /\ inPlan \subseteq all
           /\ \A k, l \in 1..Len(flat) : k < l => WalksBefore(flat[k], flat[l])
           /\ \A x \in inPlan : \A y \in all \ inPlan : WalksBefore(x, y)

C4_Witness ==
    /\ pc = "returned"
    /\ batch_sort_key \in {"input", "output"}
    /\ Len(minibatch) >= 2
    /\ Len(minibatch[1]) = 2
    /\ batch_size = 4
    /\ minibatch[1][1].ilen # minibatch[1][1].olen
    /\ max_length_in # max_length_out

\* the index with each record's ilen and olen exchanged
SwapLens(items) ==
    [i \in 1..Len(items) |->
        [items[i] EXCEPT !.ilen = items[i].olen, !.olen = items[i].ilen]]

\* C5 as stated: the plan for "output" is the plan for "input" run on the index
\* with each record's ilen and olen exchanged (same ids in the same groups).
C5_MirrorPlan ==
    (/\ pc = "returned"
     /\ batch_sort_key = "output")
    => PlanIds(minibatch) =
       PlanIds(AdaptivePlan(SwapLens(data), "input", batch_size,
                            max_length_in, max_length_out, num_batches))

\* C5 as amended: "output" differs from "input" in the sort key only; the
\* factor is computed alike in both, so the plan for "output" is the plan for
\* "input" run on the exchanged index with max_length_in and max_length_out
\* exchanged too.
C5_MirrorPlanThresholdsExchanged ==
    (/\ pc = "returned"
     /\ batch_sort_key = "output")
    => PlanIds(minibatch) =
       PlanIds(AdaptivePlan(SwapLens(data), "input", batch_size,
                            max_length_out, max_length_in, num_batches))

C5_Witness ==
    /\ pc = "returned"
    /\ batch_sort_key = "output"
    /\ max_length_in # max_length_out
    /\ Len(minibatch) >= 2
    /\ \E i \in 1..Len(data) : data[i].ilen # data[i].olen
    /\ PlanIds(minibatch) #
       PlanIds(AdaptivePlan(SwapLens(data), "input", batch_size,
                            max_length_in, max_length_out, num_batches))

---------------------------------------------------------------------------
(* Properties of batch_converter, checked under SpecConv. *)

\* the token ids of an utterance, as the manifest gives them
TokenIdsOf(item) ==
    LET toks == PySplit(item.tokenid)
    IN  List([t \in 1..Len(toks) |-> PyInt(toks[t])])

\* seq, extended with zeros to the given width
ZeroPadded(seq, width) ==
    List([t \in 1..width |-> IF t <= Len(seq) THEN seq[t] ELSE 0])

\* the largest element of a non-empty sequence of numbers
Largest(seq) ==
    CHOOSE m \in {seq[k] : k \in 1..Len(seq)} : \A k \in 1..Len(seq) : seq[k] <= m

\* the row an utterance gives in a batch whose token rows are W wide and whose
\* feature rows are M wide: its token ids, then the eos id, then zeros; its
\* frames, then zeros; stop labels that are 1 from its last frame on (in the
\* last column only for an utterance without frames)
RowOf(item, eosId, W, M) ==
    LET frames == ReadMat(item.feat)
        L == Len(frames)
    IN  [ilen |-> Len(TokenIdsOf(item)) + 1,
         x |-> ZeroPadded(TokenIdsOf(item) \o <<eosId>>, W),
         olen |-> L,
         y |-> ZeroPadded(frames, M),
         label |-> List([t \in 1..M |-> IF (L >= 1 /\ t >= L) \/ t = M THEN 1 ELSE 0])]

\* row k of the materialized batch
BatchRow(k) ==
    [ilen |-> ilens[k], x |-> xs[k], olen |-> olens[k], y |-> ys[k], label |-> labels[k]]

\* C6: the rows of a materialized batch are ordered by descending token count,
\* eos included: ilens is non-increasing, and the rows match distinct
\* utterances of the group so that, for row k and its utterance, ilens[k] is the
\* utterance's token count plus 1, xs[k] is its tokens, then the eos id
\* (declared output dimension minus 1), then zeros up to the largest ilens, and
\* ys[k], olens[k] and labels[k] are that utterance's features, frame count and
\* stop labels.
C6_RowsByDescendingLength ==
    cpc = "returned"
    => LET rows == Len(ilens)
       IN  /\ Len(xs) = rows /\ Len(ys) = rows /\ Len(olens) = rows /\ Len(labels) = rows
           /\ \A k, l \in 1..rows : k < l => ilens[k] >= ilens[l]
           /\ \A W \in {Largest(ilens)}, M \in {Largest(olens)} :
              \A expected \in {List([i \in 1..Len(batch) |->
                                        RowOf(batch[i], batch[1].shape0 - 1, W, M)])} :
              \A k \in 1..rows :
                 \* row k is the row of an utterance, and of no fewer utterances
                 \* than there are rows equal to it
                 \A row \in {BatchRow(k)} :
                    /\ \E i \in 1..Len(batch) : expected[i] = row
                    /\ Cardinality({l \in 1..rows : BatchRow(l) = row})
                       <= Cardinality({i \in 1..Len(batch) : expected[i] = row})

\* token counts [5, 2, 8] give ilens [9, 6, 3]
C6_Witness ==
    /\ cpc = "returned"
    /\ Len(batch) = 3
    /\ [i \in 1..3 |-> Len(TokenIdsOf(batch[i]))] = <<5, 2, 8>>
    /\ ilens = <<9, 6, 3>>
    /\ Len(xs[3]) = 9
    /\ olens[1] # olens[2]

\* C7: an utterance whose token string has no tokens never contributes a row:
\* the batch has one row per utterance with at least one token, and every row
\* holds at least one token before the eos id.
C7_EmptyDropped ==
    cpc = "returned"
    => /\ Len(ilens) = Cardinality({i \in 1..Len(batch) : Len(TokenIdsOf(batch[i])) > 0})
       /\ \A k \in 1..Len(ilens) : ilens[k] > 1

\* C8: in every row whose utterance has L frames (1 <= L <= M, M the padded
\* width) the stop label is 0 at every index in [0, L-1) and 1 at every index
\* in [L-1, M), and the row holds at least one 1.
C8_StopLabelBoundary ==
    cpc = "returned"
    => \A k \in 1..Len(labels) :
          LET L == olens[k]
              M == Len(ys[k])
          IN  (1 <= L /\ L <= M)
              => /\ Len(labels[k]) = M
                 /\ \A t \in 0..(M - 1) :
                       labels[k][t + 1] = IF t < L - 1 THEN 0 ELSE 1
                 /\ \E t \in 0..(M - 1) : labels[k][t + 1] = 1

C8_Witness ==
    /\ cpc = "returned"
    /\ \E k, l \in 1..Len(labels) :
          /\ olens[k] = 2 /\ labels[k] = <<0, 1>>
          /\ olens[l] = 1 /\ labels[l] = <<1, 1>>

---------------------------------------------------------------------------
(* Properties of update_core, checked under SpecTrain. *)

\* a step of the run is an iteration that computed a gradient
GradientComputed == iteration' = iteration + 1 /\ n_backward' = n_backward + 1

\* C9: in every iteration that computes a gradient the optimizer step is
\* applied if and only if the gradient norm is not NaN, and an iteration whose
\* norm is NaN leaves the parameters (and the optimizer state) as they were;
\* after an iteration with a NaN norm the next group can still be pulled; and
\* at any time the parameters have been changed exactly once per iteration
\* with a gradient norm that is not NaN.
C9_StepIffNormNotNan ==
    /\ [][GradientComputed
          => /\ (opt_steps' = opt_steps + 1 /\ params' # params) <=> grad_norm' # "nan"
             /\ grad_norm' = "nan" => (params' = params /\ opt_steps' = opt_steps)]_vars
    /\ []((grad_norm = "nan" /\ iteration < MaxIters) => ENABLED UpdateCore)
    /\ [](/\ params = n_backward - warnings.nan
          /\ opt_steps = params)

C9_Witness ==
    /\ iteration = 3
    /\ grad_norm = "finite"
    /\ warnings.nan = 1
    /\ params = 2
    /\ n_backward = 3

\* what a skipped iteration leaves alone: the tensors of the last materialized
\* batch, the model (no forward, no backward, same parameters) and the
\* optimizer (no zero_grad, no step)
SkippedFrame ==
    /\ UNCHANGED <<xs, ilens, ys, labels, olens>>
    /\ UNCHANGED <<n_convert, n_forward, n_zero_grad, n_backward, grad_norm>>
    /\ UNCHANGED <<params, opt_steps>>
    /\ warnings' = [warnings EXCEPT !.ignored = @ + 1]

\* what an iteration that is not skipped does
NotSkippedFrame ==
    /\ n_convert' = n_convert + 1
    /\ n_forward' = n_forward + 1
    /\ n_zero_grad' = n_zero_grad + 1
    /\ n_backward' = n_backward + 1
    /\ warnings'.ignored = warnings.ignored

\* C10 as stated: the iteration that pulls a group is skipped (the group is
\* consumed, nothing else changes) if and only if the group has fewer
\* utterances than the number of accelerators in use (ngpu).
C10_SkippedIffFewerThanAccelerators ==
    [][iteration' = iteration + 1
       => IF Len(batch') < ngpu THEN SkippedFrame ELSE NotSkippedFrame]_vars

\* C10 as amended: the same with the length of the updater's device list in
\* the place of the number of accelerators: ngpu when ngpu >= 1, and 1 on a
\* CPU run (ngpu = 0), whose device list is [-1].
C10_SkippedIffFewerThanDevices ==
    [][iteration' = iteration + 1
       => /\ \E g \in 1..Len(minibatch) : batch' = minibatch[g]
          /\ IF Len(batch') < (IF ngpu >= 1 THEN ngpu ELSE 1)
             THEN SkippedFrame
             ELSE NotSkippedFrame]_vars

C10_Witness ==
    /\ ngpu = 2
    /\ iteration = 2
    /\ Len(batch) = 1
    /\ warnings.ignored = 1
    /\ n_convert = 1
    /\ params = 1

---------------------------------------------------------------------------
(* Properties of evaluate, checked under SpecEval. *)

\* C11: whenever control has left evaluate, by its return or by an exception
\* raised while a batch is converted or run, the model is in training mode.
C11_TrainingModeOnEveryExit ==
    epc \in {"returned", "raised"} => training = TRUE

---------------------------------------------------------------------------
(* Properties of asr_extract main, checked under SpecMain. *)

\* main is past its checks: at the dispatch, in extract, or exited
PastChecks == mpc \in {"dispatch", "extract", "exited"}
\* the run reached the backend dispatch
ReachedDispatch == mpc \in {"dispatch", "extract"} \/ extracting
\* the process ended with a non-zero code and extract never started
ExitedBeforeWork == mpc = "exited" /\ exit_code # 0 /\ ~extracting
\* the variable names exactly n devices: it is set and has n entries
NamesDevices(env, n) == env.set /\ Len(PySplitSep(env.value, ",")) = n

\* C12 as stated: when a positive number of accelerators is requested (after
\* the --gpu override), the run reaches the dispatch only if the variable
\* names exactly that many devices; in every other case, the variable being
\* unset included, the process exits non-zero before extraction starts.
C12_DispatchOnlyIfVisibleMatches ==
    (PastChecks /\ args_ngpu > 0)
        => /\ ReachedDispatch => NamesDevices(cvd, args_ngpu)
           /\ ~NamesDevices(cvd, args_ngpu) => ExitedBeforeWork

\* C12 as amended: the same, except that an unset variable passes the check:
\* the dispatch is reached only if the variable is unset or has exactly as
\* many comma-separated entries as accelerators are requested, and when it is
\* set with another number of entries the process exits non-zero before
\* extraction starts.
C12_DispatchOnlyIfUnsetOrMatches ==
    (PastChecks /\ args_ngpu > 0)
        => /\ ReachedDispatch => (~cvd.set \/ NamesDevices(cvd, args_ngpu))
           /\ (cvd.set /\ ~NamesDevices(cvd, args_ngpu)) => ExitedBeforeWork

C12_Witness ==
    /\ args_gpu = GpuArg(0)
    /\ args_ngpu = 1
    /\ cvd = EnvStr(<<"0", ",", "1">>)
    /\ hostname = "other"
    /\ pythonpath
    /\ mpc = "exited"
    /\ exit_code = 1
    /\ ~extracting

---------------------------------------------------------------------------
(* Properties of the loop of make_batchset, checked under SpecLoop. *)

\* a pass has just been made and the loop goes round again
PassedAndLoops == passes' = passes + 1 /\ pc' = "loop"

\* the calls for which the loop advances: a non-empty index, and either a
\* batch_size of at least 1 or an adaptive policy (whose group size is at
\* least 1 whatever batch_size is)
Advancing ==
    /\ batch_sort_key \in ValidKeys
    /\ Len(data) >= 1
    /\ (batch_size >= 1 \/ batch_sort_key # "None")

\* C13 as stated: for every index, every valid policy and every
\* batch_size >= 0 the call raises nothing, every pass that goes round again
\* has advanced start by at least one utterance, and no more than N passes
\* are made.
C13_EndsWithinNPasses ==
    /\ [](batch_sort_key \in ValidKeys => (pc # "raised" /\ passes <= Len(data)))
    /\ [][(batch_sort_key \in ValidKeys /\ PassedAndLoops)
              => start_pos' >= start_pos + 1]_vars

\* C13 as amended: for a non-empty index and either batch_size >= 1 or an
\* adaptive policy, the call raises nothing, every pass that goes round again
\* has advanced start by at least one utterance, the loop is left after at
\* most N passes, and a plan is returned. For an empty index, policy None
\* returns the plan [[]] after one pass and the adaptive policies raise in
\* their first pass. For a non-empty index, policy None and batch_size 0, no
\* pass advances start and the call never returns.
C13_EndsWithinNPassesWhenAdvancing ==
    /\ [](Advancing
             => /\ pc # "raised"
                /\ passes <= Len(data)
                /\ pc = "loop" => (start_pos < Len(data) /\ passes < Len(data))
                /\ pc = "returned" => (passes >= 1 /\ Len(minibatch) >= 1))
    /\ [][(Advancing /\ PassedAndLoops) => start_pos' >= start_pos + 1]_vars
    /\ []((batch_sort_key = "None" /\ Len(data) = 0)
             => /\ pc # "raised"
                /\ passes <= 1
                /\ pc = "returned" => minibatch = Cap(<< <<>> >>, num_batches))
    /\ []((batch_sort_key \in {"input", "output"} /\ Len(data) = 0)
             => /\ pc # "returned"
                /\ passes <= 1
                /\ passes = 1 => pc = "raised")
    /\ []((batch_sort_key = "None" /\ Len(data) >= 1 /\ batch_size = 0)
             => /\ pc \in {"call", "loop"}
                /\ start_pos = 0
                /\ \A g \in 1..Len(minibatch) : minibatch[g] = <<>>)

C13_Witness ==
    /\ batch_sort_key = "input"
    /\ batch_size = 0
    /\ Len(data) = 3
    /\ passes = 3
    /\ pc = "returned"
    /\ Len(minibatch) = 3

=============================================================================
